---- MODULE Spec2Model ----
(***************************************************************************)
(* warden: the request-document parser (request.go, newRequest) and the    *)
(* concurrent dispatch engine (main.go, send and run).                     *)
(*                                                                         *)
(* Two specifications share the module:                                    *)
(*   SpecParse  newRequest on a byte stream, one loop iteration per step   *)
(*   Spec       run and its send tasks, one goroutine step per action      *)
(* A string of the program is a sequence of bytes; a byte is a one         *)
(* character string, LF and CR standing for '\n' and '\r'.                 *)
(***************************************************************************)
EXTENDS Integers, Sequences, FiniteSets, TLC

LF == "LF"
CR == "CR"
Q  == "Q"       \* the double quote byte
LineEnds == {LF, CR}
Dashes == <<"-", "-", "-">>

\* ------------------------------------------------------------------------
\* Bounds of the model
\* ------------------------------------------------------------------------
MaxDocLen == 4      \* longest stream drawn from all byte strings
MaxBodyLen == 2     \* longest body of a framed document
MaxRequests == 2    \* most requests handed to run
MaxHeaderLen == 4   \* longest header line Name and Value are called on

\* ------------------------------------------------------------------------
\* request.go: the request type
\* ------------------------------------------------------------------------
ZeroRequest ==
    [Name |-> <<>>, URL |-> <<>>, Method |-> <<>>, Timeout |-> 0,
     Headers |-> <<>>, Assertions |-> <<>>, Body |-> <<>>]

\* ------------------------------------------------------------------------
\* encoding/json.Unmarshal into a request, on the bytes of the model:
\* white space is LF and CR, a value is a string or an object, an object
\* has at most one member (the model has no comma byte).
\* ------------------------------------------------------------------------
RECURSIVE SkipWs(_, _)
SkipWs(s, i) ==
    IF i <= Len(s) /\ s[i] \in LineEnds THEN SkipWs(s, i + 1) ELSE i

\* The index of the quote closing the string opened before i, 0 when a
\* control byte or the end of input comes first.
RECURSIVE StringEnd(_, _)
StringEnd(s, i) ==
    IF i > Len(s) \/ s[i] \in LineEnds THEN 0
    ELSE IF s[i] = Q THEN i
    ELSE StringEnd(s, i + 1)

\* Scans one JSON value at i: [ok, next, kind, key, val], key and val being
\* the member of an object ("" kind of value when the object is empty).
RECURSIVE ScanValue(_, _)
ScanValue(s, i) ==
    LET bad == [ok |-> FALSE, next |-> i, kind |-> "none", key |-> <<>>,
                vkind |-> "none", val |-> <<>>]
    IN
    IF i > Len(s) THEN bad
    ELSE IF s[i] = Q THEN
        LET e == StringEnd(s, i + 1) IN
        IF e = 0 THEN bad
        ELSE [ok |-> TRUE, next |-> e + 1, kind |-> "string", key |-> <<>>,
              vkind |-> "none", val |-> SubSeq(s, i + 1, e - 1)]
    ELSE IF s[i] = "{" THEN
        LET j == SkipWs(s, i + 1) IN
        IF j > Len(s) THEN bad
        ELSE IF s[j] = "}" THEN
            [ok |-> TRUE, next |-> j + 1, kind |-> "object", key |-> <<>>,
             vkind |-> "none", val |-> <<>>]
        ELSE IF s[j] # Q THEN bad
        ELSE
            LET ke == StringEnd(s, j + 1) IN
            IF ke = 0 THEN bad
            ELSE
                LET c == SkipWs(s, ke + 1) IN
                IF c > Len(s) \/ s[c] # ":" THEN bad
                ELSE
                    LET v == ScanValue(s, SkipWs(s, c + 1)) IN
                    IF ~v.ok THEN bad
                    ELSE
                        LET z == SkipWs(s, v.next) IN
                        IF z > Len(s) \/ s[z] # "}" THEN bad
                        ELSE [ok |-> TRUE, next |-> z + 1, kind |-> "object",
                              key |-> SubSeq(s, j + 1, ke - 1),
                              vkind |-> v.kind, val |-> v.val]
    ELSE bad

\* json.Unmarshal(data, &req): a syntax error, or a value that does not fit
\* the request (a top-level string, a "url" member that is no string),
\* is an error; a member of another name is ignored.
JsonUnmarshal(data) ==
    LET v == ScanValue(data, SkipWs(data, 1)) IN
    IF ~v.ok \/ SkipWs(data, v.next) # Len(data) + 1
        THEN [err |-> "json syntax", req |-> ZeroRequest]
    ELSE IF v.kind # "object"
        THEN [err |-> "json type", req |-> ZeroRequest]
    ELSE IF v.vkind # "none" /\ v.key = <<"u", "r", "l">>
        THEN IF v.vkind = "string"
                THEN [err |-> "nil", req |-> [ZeroRequest EXCEPT !.URL = v.val]]
                ELSE [err |-> "json type", req |-> ZeroRequest]
    ELSE [err |-> "nil", req |-> ZeroRequest]

\* ------------------------------------------------------------------------
\* The byte streams newRequest is run on
\* ------------------------------------------------------------------------
SeqsUpTo(S, n) == UNION {[1..k -> S] : k \in 0..n}

ShortBytes == {"{", "}", "-", LF, CR, "u"}
BodyBytes == {LF, CR, "-", "u"}

MetaUrl == <<"{", Q, "u", "r", "l", Q, ":", Q, "u", Q, "}">>
Metas ==
    { <<>>, <<"{", "}">>, <<"{", LF, "}">>, MetaUrl, <<"u">>,
      <<"-", "-", "-", LF, "{", "}">> }
DividerLeads == { <<>>, <<LF>>, <<CR>>, <<CR, LF>> }
DashRuns == { <<"-", "-">>, Dashes, <<"-", "-", "-", "-">> }
DividerTails == { <<>>, <<LF>>, <<CR>>, <<CR, LF>> }
\* the bodies: every short one, and one with a line of three dashes in it
Bodies ==
    SeqsUpTo(BodyBytes, MaxBodyLen) \cup {<<"u", LF, "-", "-", "-", LF, "u">>}

\* metadata, a candidate divider line, a body
FramedDocs ==
    { m \o l \o d \o t \o b :
        m \in Metas, l \in DividerLeads, d \in DashRuns, t \in DividerTails,
        b \in Bodies }
Docs == SeqsUpTo(ShortBytes, MaxDocLen) \cup FramedDocs

\* What the underlying io.Reader returns once its bytes are used up.
ReadErrors == {"EOF", "read error"}

\* ------------------------------------------------------------------------
\* State
\* ------------------------------------------------------------------------
VARIABLES
    doc,                \* the bytes of the stream given to newRequest
    readErr,            \* the error the stream ends with
    pos,                \* bytes taken from the bufio.Reader so far
    writerFrontMatter,  \* request.go:76
    writerBody,         \* request.go:77
    found,              \* request.go:78
    ppc,                \* where newRequest is: "idle", "loop", "decode", "done"
    ret                 \* what newRequest returned: [req, err]

pvars == <<doc, readErr, pos, writerFrontMatter, writerBody, found, ppc, ret>>

VARIABLES
    requests,       \* the argument of run
    spawned,        \* how many "go send" the first loop of run has executed
    received,       \* the results run has taken from c, in order
    runPc,          \* "idle", "running", "returned"
    pc,             \* per send task: "idle", "start", "select", "read",
                    \*   "assert", "send", "done"
    call,           \* per task: the *http.Request built by http.NewRequest
    callState,      \* per task, the goroutine of main.go:137-140:
                    \*   "none", "running", "returned"
    timeoutChan,    \* per task: the buffered channel of main.go:134
    theResponse,    \* per task: main.go:144
    responseTime,   \* per task: main.go:153
    str,            \* per task: the bytes ReadAll returned, main.go:160
    assertIdx,      \* per task: the assertion the loop of main.go:178 is at
    out,            \* per task: the result it is sending on c
    crashed,        \* a goroutine panicked: the process is gone
    timerFirst,     \* history: the timer case was taken with the call still out
    bodyRead,       \* history: ReadAll succeeded
    evaluated       \* history: the assertions Find was called on, in order

dvars == <<requests, spawned, received, runPc, pc, call, callState,
           timeoutChan, theResponse, responseTime, str, assertIdx, out,
           crashed, timerFirst, bodyRead, evaluated>>

VARIABLES
    header,         \* the header Name() and Value() are called on
    hName,          \* what Name() returned
    hValue,         \* what Value() returned
    hpc             \* "idle", "start", "named", "done"

hvars == <<header, hName, hValue, hpc>>

vars == <<pvars, dvars, hvars>>

\* No header is being taken apart.
HeaderIdle ==
    /\ header = <<>>
    /\ hName = <<>>
    /\ hValue = <<>>
    /\ hpc = "idle"

\* No run is going on.
DispatchIdle ==
    /\ requests = <<>>
    /\ spawned = 0
    /\ received = <<>>
    /\ runPc = "idle"
    /\ pc = <<>>
    /\ call = <<>>
    /\ callState = <<>>
    /\ timeoutChan = <<>>
    /\ theResponse = <<>>
    /\ responseTime = <<>>
    /\ str = <<>>
    /\ assertIdx = <<>>
    /\ out = <<>>
    /\ crashed = FALSE
    /\ timerFirst = <<>>
    /\ bodyRead = <<>>
    /\ evaluated = <<>>

\* No newRequest is going on.
ParserIdle ==
    /\ doc = <<>>
    /\ readErr = "EOF"
    /\ pos = 0
    /\ writerFrontMatter = <<>>
    /\ writerBody = <<>>
    /\ found = FALSE
    /\ ppc = "idle"
    /\ ret = [req |-> ZeroRequest, err |-> "nil"]

\* ------------------------------------------------------------------------
\* request.go: newRequest
\* ------------------------------------------------------------------------
\* reader.Peek(n) after p bytes were taken: the bytes, short at the end.
Peek(d, p, n) == SubSeq(d, p + 1, IF p + n <= Len(d) THEN p + n ELSE Len(d))

\* LineStart without the test of found.
LineStartAlways(b, fnd) == b \in LineEnds

\* request.go:91, the test that starts the search for the divider
LineStart(b, fnd) == b \in LineEnds /\ ~fnd

\* request.go:98
IsDivider(peek) == peek = Dashes

\* request.go:105-107 and 112-114: Discard(1) when the peeked byte is CR or LF
SkipLineEnd(d, p) == IF d[p + 1] \in LineEnds THEN p + 1 ELSE p

\* request.go:93-117, entered with p bytes taken: the outcome is to go on
\* reading the front matter ("meta"), to go on with the body ("body"), or
\* to return an error ("return").
AtLineStart(d, p, rerr) ==
    IF Len(Peek(d, p, 3)) < 3
        THEN [to |-> "return", err |-> "invalid file format", pos |-> p]
    ELSE IF ~IsDivider(Peek(d, p, 3))
        THEN [to |-> "meta", err |-> "nil", pos |-> p]
    ELSE IF Len(Peek(d, p + 3, 1)) < 1
        THEN [to |-> "return", err |-> rerr, pos |-> p + 3]
    ELSE IF Len(Peek(d, SkipLineEnd(d, p + 3), 1)) < 1
        THEN [to |-> "return", err |-> rerr, pos |-> SkipLineEnd(d, p + 3)]
    ELSE [to |-> "body", err |-> "nil",
          pos |-> SkipLineEnd(d, SkipLineEnd(d, p + 3))]

\* DecodeResult without the test of json.Unmarshal's error.
DecodeResultUnchecked(fnd, fm, body) ==
    IF ~fnd THEN [req |-> ZeroRequest, err |-> "no front-matter found"]
    ELSE [req |-> [JsonUnmarshal(fm).req EXCEPT !.Body = body], err |-> "nil"]

\* DecodeResult returning req, not request{}, with json.Unmarshal's error.
DecodeResultKeepsRequest(fnd, fm, body) ==
    IF ~fnd THEN [req |-> ZeroRequest, err |-> "no front-matter found"]
    ELSE [req |-> [JsonUnmarshal(fm).req EXCEPT !.Body = body],
          err |-> JsonUnmarshal(fm).err]

\* request.go:122-135
DecodeResult(fnd, fm, body) ==
    IF ~fnd THEN [req |-> ZeroRequest, err |-> "no front-matter found"]
    ELSE IF JsonUnmarshal(fm).err # "nil"
        THEN [req |-> ZeroRequest, err |-> JsonUnmarshal(fm).err]
    ELSE [req |-> [JsonUnmarshal(fm).req EXCEPT !.Body = body], err |-> "nil"]

InitParse ==
    /\ doc \in Docs
    /\ readErr \in ReadErrors
    /\ pos = 0
    /\ writerFrontMatter = <<>>
    /\ writerBody = <<>>
    /\ found = FALSE
    /\ ppc = "loop"
    /\ ret = [req |-> ZeroRequest, err |-> "nil"]
    /\ DispatchIdle
    /\ HeaderIdle

\* One iteration of the loop of request.go:81-120.
ReadByte ==
    /\ ppc = "loop"
    /\ IF pos = Len(doc)
         THEN \* ReadByte fails, with EOF or not: break
              /\ ppc' = "decode"
              /\ UNCHANGED <<pos, writerFrontMatter, writerBody, found, ret>>
         ELSE LET b == doc[pos + 1]
                  o == AtLineStart(doc, pos + 1, readErr)
              IN
              /\ IF found
                   THEN /\ writerBody' = Append(writerBody, b)
                        /\ UNCHANGED writerFrontMatter
                   ELSE /\ writerFrontMatter' = Append(writerFrontMatter, b)
                        /\ UNCHANGED writerBody
              /\ IF ~LineStart(b, found)
                   THEN /\ pos' = pos + 1
                        /\ UNCHANGED <<found, ppc, ret>>
                   ELSE /\ pos' = o.pos
                        /\ found' = (o.to = "body")
                        /\ ppc' = IF o.to = "return" THEN "done" ELSE "loop"
                        /\ ret' = IF o.to = "return"
                                    THEN [req |-> ZeroRequest, err |-> o.err]
                                    ELSE ret
    /\ UNCHANGED <<doc, readErr>>
    /\ UNCHANGED <<dvars, hvars>>

\* After the loop, request.go:122-135.
Decode ==
    /\ ppc = "decode"
    /\ ret' = DecodeResult(found, writerFrontMatter, writerBody)
    /\ ppc' = "done"
    /\ UNCHANGED <<doc, readErr, pos, writerFrontMatter, writerBody, found>>
    /\ UNCHANGED <<dvars, hvars>>

NextParse == ReadByte \/ Decode

SpecParse == InitParse /\ [][NextParse]_vars

\* ------------------------------------------------------------------------
\* request.go: header and assertion
\* ------------------------------------------------------------------------
\* strings.Index(h, ":"): the 0-based index of the first colon, or -1
IndexColon(h) ==
    IF \E i \in 1..Len(h) : h[i] = ":"
        THEN (CHOOSE i \in 1..Len(h) :
                h[i] = ":" /\ \A j \in 1..(i - 1) : h[j] # ":") - 1
        ELSE -1

\* strings.Trim(s, " ")
RECURSIVE TrimSpaces(_)
TrimSpaces(s) ==
    IF s = <<>> THEN s
    ELSE IF Head(s) = " " THEN TrimSpaces(Tail(s))
    ELSE IF s[Len(s)] = " " THEN TrimSpaces(SubSeq(s, 1, Len(s) - 1))
    ELSE s

\* request.go:30-37
HeaderName(h) ==
    IF IndexColon(h) > 0 THEN SubSeq(h, 1, IndexColon(h)) ELSE <<>>

\* request.go:39-46
HeaderValue(h) ==
    IF IndexColon(h) > 0
        THEN TrimSpaces(SubSeq(h, IndexColon(h) + 2, Len(h)))
        ELSE <<>>

\* The header lines Name() and Value() are called on.
HeaderBytes == {"A", ":", " "}
HeaderLines == SeqsUpTo(HeaderBytes, MaxHeaderLen)

InitHeader ==
    /\ header \in HeaderLines
    /\ hName = <<>>
    /\ hValue = <<>>
    /\ hpc = "start"
    /\ ParserIdle
    /\ DispatchIdle

\* request_test.go:112, test.Header.Name()
CallName ==
    /\ hpc = "start"
    /\ hName' = HeaderName(header)
    /\ hpc' = "named"
    /\ UNCHANGED <<header, hValue>>
    /\ UNCHANGED <<pvars, dvars>>

\* request_test.go:116, test.Header.Value()
CallValue ==
    /\ hpc = "named"
    /\ hValue' = HeaderValue(header)
    /\ hpc' = "done"
    /\ UNCHANGED <<header, hName>>
    /\ UNCHANGED <<pvars, dvars>>

NextHeader == CallName \/ CallValue

SpecHeader == InitHeader /\ [][NextHeader]_vars

\* regexp.Compile on the patterns of the model: literal bytes compile, a
\* pattern with an unclosed "(" does not.
Compiles(a) == \A i \in 1..Len(a) : a[i] # "("

\* regexp.Find of a literal pattern: it occurs somewhere in the content.
Occurs(a, content) ==
    \E i \in 0..(Len(content) - Len(a)) :
        SubSeq(content, i + 1, i + Len(a)) = a

\* request.go:62-67, assertion.Find: MustCompile panics on a pattern that
\* does not compile.
Find(a, content) ==
    IF ~Compiles(a) THEN "panic"
    ELSE IF Occurs(a, content) THEN "match"
    ELSE "nomatch"

\* ------------------------------------------------------------------------
\* The requests run is given, and what the HTTP servers may answer
\* ------------------------------------------------------------------------
ReqProbe ==
    [Name |-> <<"p">>, URL |-> <<"u">>, Method |-> <<"G", "E", "T">>,
     Timeout |-> 50, Headers |-> << <<"A", ":", " ", "b">>, <<"A", ":", "c">> >>,
     Assertions |-> << <<"a">>, <<"b">>, <<"(">> >>, Body |-> <<"x">>]
ReqPlain ==
    [Name |-> <<"q">>, URL |-> <<"u">>, Method |-> <<"G", "E", "T">>,
     Timeout |-> 0, Headers |-> <<>>, Assertions |-> <<>>, Body |-> <<>>]
ReqBadMethod ==
    [Name |-> <<"r">>, URL |-> <<"u">>, Method |-> <<"G", " ", "T">>,
     Timeout |-> 50, Headers |-> <<>>, Assertions |-> << <<"a">> >>,
     Body |-> <<>>]
RequestSet == {ReqProbe, ReqPlain, ReqBadMethod}

ResponseBodies == { <<>>, <<"a">>, <<"a", "b">> }
\* What client.Do returns: a transport error, or a response with a body.
Responses ==
    {[Err |-> "transport", Body |-> <<>>]}
        \cup {[Err |-> "nil", Body |-> b] : b \in ResponseBodies}
NoResponse == [Err |-> "nil", Body |-> <<>>]
\* The durations time.Now().Sub(tstart) may measure.
Durations == {3}

\* ------------------------------------------------------------------------
\* main.go: result and the results send builds
\* ------------------------------------------------------------------------
NoError == [kind |-> "nil", ms |-> 0, pattern |-> <<>>]
\* main.go:125, the error of http.NewRequest
BuildError == [kind |-> "build", ms |-> 0, pattern |-> <<>>]
\* main.go:148 with the timeout left out of the message
TimeoutErrorNoValue(r) == [kind |-> "timeout", ms |-> 0, pattern |-> <<>>]
\* main.go:148, "timeout after %d ms"
TimeoutError(r) == [kind |-> "timeout", ms |-> r.Timeout, pattern |-> <<>>]
\* main.go:156, theResponse.Err
TransportError == [kind |-> "transport", ms |-> 0, pattern |-> <<>>]
\* main.go:162, the error of ioutil.ReadAll
ReadBodyError == [kind |-> "read", ms |-> 0, pattern |-> <<>>]
\* main.go:180 naming the first assertion whatever k is
AssertionErrorFirst(r, k) ==
    [kind |-> "assertion", ms |-> 0, pattern |-> r.Assertions[1]]
\* main.go:180, "assertion failed: '%s'"
AssertionError(r, k) ==
    [kind |-> "assertion", ms |-> 0, pattern |-> r.Assertions[k]]

\* main.go:38-43; task is the send task the result comes from (history).
Result(i, r, resp, rt, e) ==
    [task |-> i, Request |-> r, Response |-> resp, ResponseTime |-> rt,
     Error |-> e]
NoResult == Result(0, ZeroRequest, <<>>, 0, NoError)

\* main.go:180 with the body left in the result
AssertionFailedResultWithBody(i, r, body, rt, k) ==
    Result(i, r, body, rt, AssertionError(r, k))
\* main.go:180 with the sentinel in place of responseTime
AssertionFailedResultSentinel(i, r, body, rt, k) ==
    Result(i, r, <<>>, -1, AssertionError(r, k))
\* main.go:180
AssertionFailedResult(i, r, body, rt, k) ==
    Result(i, r, <<>>, rt, AssertionError(r, k))

\* http.NewRequest: a method that is no token is refused.
ValidMethod(m) == m # <<>> /\ \A j \in 1..Len(m) : m[j] # " "

\* main.go:121-123: the call is made of Method, URL and Body; send adds
\* nothing to its header.
BuildCall(r) ==
    [Method |-> r.Method, URL |-> r.URL, Body |-> r.Body, Header |-> <<>>]
NoCall == [Method |-> <<>>, URL |-> <<>>, Body |-> <<>>, Header |-> <<>>]

\* main.go:181 without the return: the loop goes on after the send
AfterSendNoReturn(e) == IF e.kind = "assertion" THEN "assert" ELSE "done"
\* main.go:126, 149, 157, 163, 181, 187: send returns after each send on c
AfterSend(e) == "done"

\* ------------------------------------------------------------------------
\* main.go: run and send
\* ------------------------------------------------------------------------
Tasks == 1..Len(requests)

InitRun ==
    /\ requests \in SeqsUpTo(RequestSet, MaxRequests)
    /\ spawned = 0
    /\ received = <<>>
    /\ runPc = "running"
    /\ pc = [i \in Tasks |-> "idle"]
    /\ call = [i \in Tasks |-> NoCall]
    /\ callState = [i \in Tasks |-> "none"]
    /\ timeoutChan = [i \in Tasks |-> <<>>]
    /\ theResponse = [i \in Tasks |-> NoResponse]
    /\ responseTime = [i \in Tasks |-> 0]
    /\ str = [i \in Tasks |-> <<>>]
    /\ assertIdx = [i \in Tasks |-> 1]
    /\ out = [i \in Tasks |-> NoResult]
    /\ crashed = FALSE
    /\ timerFirst = [i \in Tasks |-> FALSE]
    /\ bodyRead = [i \in Tasks |-> FALSE]
    /\ evaluated = [i \in Tasks |-> <<>>]
    /\ ParserIdle
    /\ HeaderIdle

Alive == runPc = "running" /\ ~crashed

\* main.go:192-194, one "go send(request, c)"
RunGo ==
    /\ Alive
    /\ spawned < Len(requests)
    /\ spawned' = spawned + 1
    /\ pc' = [pc EXCEPT ![spawned + 1] = "start"]
    /\ UNCHANGED <<requests, received, runPc, call, callState, timeoutChan,
                   theResponse, responseTime, str, assertIdx, out, crashed,
                   timerFirst, bodyRead, evaluated>>
    /\ UNCHANGED <<pvars, hvars>>

\* main.go:121-142: build the call, or send the build error; start the
\* goroutine that makes the call.
Build(i) ==
    /\ Alive
    /\ pc[i] = "start"
    /\ IF ~ValidMethod(requests[i].Method)
         THEN /\ out' = [out EXCEPT
                    ![i] = Result(i, requests[i], <<>>, -1, BuildError)]
              /\ pc' = [pc EXCEPT ![i] = "send"]
              /\ UNCHANGED <<call, callState>>
         ELSE /\ call' = [call EXCEPT ![i] = BuildCall(requests[i])]
              /\ callState' = [callState EXCEPT ![i] = "running"]
              /\ pc' = [pc EXCEPT ![i] = "select"]
              /\ UNCHANGED out
    /\ UNCHANGED <<requests, spawned, received, runPc, timeoutChan,
                   theResponse, responseTime, str, assertIdx, crashed,
                   timerFirst, bodyRead, evaluated>>
    /\ UNCHANGED <<pvars, hvars>>

\* CallReturn with a timeoutChan that has no buffer: the outcome can only
\* be handed to a send task waiting in its select.
CallReturnUnbuffered(i) ==
    /\ Alive
    /\ callState[i] = "running"
    /\ pc[i] = "select"
    /\ \E o \in Responses :
          timeoutChan' = [timeoutChan EXCEPT ![i] = Append(@, o)]
    /\ callState' = [callState EXCEPT ![i] = "returned"]
    /\ UNCHANGED <<requests, spawned, received, runPc, pc, call, theResponse,
                   responseTime, str, assertIdx, out, crashed, timerFirst,
                   bodyRead, evaluated>>
    /\ UNCHANGED <<pvars, hvars>>

\* main.go:137-140: client.Do returns, its outcome goes to timeoutChan,
\* which has room for it, and the goroutine ends.
CallReturn(i) ==
    /\ Alive
    /\ callState[i] = "running"
    /\ \E o \in Responses :
          timeoutChan' = [timeoutChan EXCEPT ![i] = Append(@, o)]
    /\ callState' = [callState EXCEPT ![i] = "returned"]
    /\ UNCHANGED <<requests, spawned, received, runPc, pc, call, theResponse,
                   responseTime, str, assertIdx, out, crashed, timerFirst,
                   bodyRead, evaluated>>
    /\ UNCHANGED <<pvars, hvars>>

\* SelectTimeout with a timer that also covers the body read and the
\* assertions.
SelectTimeoutAnytime(i) ==
    /\ Alive
    /\ pc[i] \in {"select", "read", "assert"}
    /\ out' = [out EXCEPT
          ![i] = Result(i, requests[i], <<>>, -1, TimeoutError(requests[i]))]
    /\ pc' = [pc EXCEPT ![i] = "send"]
    /\ timerFirst' = [timerFirst EXCEPT ![i] = (timeoutChan[i] = <<>>)]
    /\ UNCHANGED <<requests, spawned, received, runPc, call, callState,
                   timeoutChan, theResponse, responseTime, str, assertIdx,
                   crashed, bodyRead, evaluated>>
    /\ UNCHANGED <<pvars, hvars>>

\* main.go:147-149: the timer case of the select
SelectTimeout(i) ==
    /\ Alive
    /\ pc[i] = "select"
    /\ out' = [out EXCEPT
          ![i] = Result(i, requests[i], <<>>, -1, TimeoutError(requests[i]))]
    /\ pc' = [pc EXCEPT ![i] = "send"]
    /\ timerFirst' = [timerFirst EXCEPT ![i] = (timeoutChan[i] = <<>>)]
    /\ UNCHANGED <<requests, spawned, received, runPc, call, callState,
                   timeoutChan, theResponse, responseTime, str, assertIdx,
                   crashed, bodyRead, evaluated>>
    /\ UNCHANGED <<pvars, hvars>>

\* main.go:150-158: the call's outcome is taken from timeoutChan, the
\* response time measured, a transport error sent.
SelectResponse(i) ==
    /\ Alive
    /\ pc[i] = "select"
    /\ timeoutChan[i] # <<>>
    /\ theResponse' = [theResponse EXCEPT ![i] = Head(timeoutChan[i])]
    /\ timeoutChan' = [timeoutChan EXCEPT ![i] = Tail(@)]
    /\ \E d \in Durations : responseTime' = [responseTime EXCEPT ![i] = d]
    /\ IF Head(timeoutChan[i]).Err # "nil"
         THEN /\ out' = [out EXCEPT
                    ![i] = Result(i, requests[i], <<>>, -1, TransportError)]
              /\ pc' = [pc EXCEPT ![i] = "send"]
         ELSE /\ pc' = [pc EXCEPT ![i] = "read"]
              /\ UNCHANGED out
    /\ UNCHANGED <<requests, spawned, received, runPc, call, callState, str,
                   assertIdx, crashed, timerFirst, bodyRead, evaluated>>
    /\ UNCHANGED <<pvars, hvars>>

\* main.go:160-164: ioutil.ReadAll of the response body
ReadBody(i) ==
    /\ Alive
    /\ pc[i] = "read"
    /\ \E ok \in BOOLEAN :
          IF ok
            THEN /\ str' = [str EXCEPT ![i] = theResponse[i].Body]
                 /\ bodyRead' = [bodyRead EXCEPT ![i] = TRUE]
                 /\ pc' = [pc EXCEPT ![i] = "assert"]
                 /\ UNCHANGED out
            ELSE /\ out' = [out EXCEPT
                       ![i] = Result(i, requests[i], <<>>, -1, ReadBodyError)]
                 /\ pc' = [pc EXCEPT ![i] = "send"]
                 /\ UNCHANGED <<str, bodyRead>>
    /\ UNCHANGED <<requests, spawned, received, runPc, call, callState,
                   timeoutChan, theResponse, responseTime, assertIdx, crashed,
                   timerFirst, evaluated>>
    /\ UNCHANGED <<pvars, hvars>>

\* main.go:178-186: one turn of the loop over the assertions, or, past the
\* last one, the result of a success.
AssertStep(i) ==
    /\ Alive
    /\ pc[i] = "assert"
    /\ LET r == requests[i]
           k == assertIdx[i]
       IN
       IF k > Len(r.Assertions)
         THEN /\ out' = [out EXCEPT
                    ![i] = Result(i, r, str[i], responseTime[i], NoError)]
              /\ pc' = [pc EXCEPT ![i] = "send"]
              /\ UNCHANGED <<assertIdx, evaluated, crashed>>
         ELSE /\ evaluated' = [evaluated EXCEPT ![i] = Append(@, k)]
              /\ assertIdx' = [assertIdx EXCEPT ![i] = k + 1]
              /\ crashed' = (Find(r.Assertions[k], str[i]) = "panic")
              /\ IF Find(r.Assertions[k], str[i]) = "nomatch"
                   THEN /\ out' = [out EXCEPT ![i] =
                              AssertionFailedResult(i, r, str[i],
                                                    responseTime[i], k)]
                        /\ pc' = [pc EXCEPT ![i] = "send"]
                   ELSE UNCHANGED <<out, pc>>
    /\ UNCHANGED <<requests, spawned, received, runPc, call, callState,
                   timeoutChan, theResponse, responseTime, str, timerFirst,
                   bodyRead>>
    /\ UNCHANGED <<pvars, hvars>>

\* main.go:196-199 with the "c <- result" of task i: c has no buffer, the
\* send and the receive happen together, once run is in its second loop.
Receive(i) ==
    /\ Alive
    /\ spawned = Len(requests)
    /\ Len(received) < Len(requests)
    /\ pc[i] = "send"
    /\ received' = Append(received, out[i])
    /\ pc' = [pc EXCEPT ![i] = AfterSend(out[i].Error)]
    /\ UNCHANGED <<requests, spawned, runPc, call, callState, timeoutChan,
                   theResponse, responseTime, str, assertIdx, out, crashed,
                   timerFirst, bodyRead, evaluated>>
    /\ UNCHANGED <<pvars, hvars>>

\* main.go:196-201: the second loop has taken len(requests) results
RunReturn ==
    /\ Alive
    /\ spawned = Len(requests)
    /\ Len(received) = Len(requests)
    /\ runPc' = "returned"
    /\ UNCHANGED <<requests, spawned, received, pc, call, callState,
                   timeoutChan, theResponse, responseTime, str, assertIdx,
                   out, crashed, timerFirst, bodyRead, evaluated>>
    /\ UNCHANGED <<pvars, hvars>>

Next ==
    \/ RunGo
    \/ RunReturn
    \/ \E i \in Tasks : Build(i)
    \/ \E i \in Tasks : CallReturn(i)
    \/ \E i \in Tasks : SelectTimeout(i)
    \/ \E i \in Tasks : SelectResponse(i)
    \/ \E i \in Tasks : ReadBody(i)
    \/ \E i \in Tasks : AssertStep(i)
    \/ \E i \in Tasks : Receive(i)

Spec == InitRun /\ [][Next]_vars

\* Fair scheduling of run and of the send tasks: every step of the code
\* that can be taken is taken in the end, the timers fire, the body reads
\* finish. Nothing makes an HTTP call return.
Fairness ==
    /\ WF_vars(RunGo)
    /\ WF_vars(RunReturn)
    /\ \A i \in 1..MaxRequests :
          /\ WF_vars(i \in Tasks /\ Build(i))
          /\ WF_vars(i \in Tasks /\ SelectTimeout(i))
          /\ WF_vars(i \in Tasks /\ ReadBody(i))
          /\ WF_vars(i \in Tasks /\ AssertStep(i))
          /\ WF_vars(i \in Tasks /\ Receive(i))

LiveSpec == Spec /\ Fairness

\* ------------------------------------------------------------------------
\* The document format, as the claims about newRequest describe it
\* ------------------------------------------------------------------------
\* A line of d that starts at index k and is exactly three dashes.
DividerLineAt(d, k) ==
    /\ k = 1 \/ d[k - 1] \in LineEnds
    /\ k + 2 <= Len(d)
    /\ SubSeq(d, k, k + 2) = Dashes
    /\ k + 3 > Len(d) \/ d[k + 3] \in LineEnds

HasDividerLine(d) == \E k \in 1..Len(d) : DividerLineAt(d, k)

FirstDividerLine(d) ==
    CHOOSE k \in 1..Len(d) :
        DividerLineAt(d, k) /\ \A j \in 1..(k - 1) : ~DividerLineAt(d, j)

\* The length of the one line ending at index k: CR LF, LF or CR, else 0.
LineEndLen(d, k) ==
    IF k > Len(d) \/ d[k] \notin LineEnds THEN 0
    ELSE IF d[k] = CR /\ k + 1 <= Len(d) /\ d[k + 1] = LF THEN 2
    ELSE 1

MetaBefore(d, k) == SubSeq(d, 1, k - 1)
BodyAfter(d, k) == SubSeq(d, k + 3 + LineEndLen(d, k + 3), Len(d))

\* A document: metadata that decodes, a divider line, a body, a normal end.
FramedDocument ==
    /\ readErr = "EOF"
    /\ HasDividerLine(doc)
    /\ JsonUnmarshal(MetaBefore(doc, FirstDividerLine(doc))).err = "nil"

\* ------------------------------------------------------------------------
\* Claims about newRequest
\* ------------------------------------------------------------------------
\* C3: for every document made of valid metadata M, a divider line and a
\* body B (the empty one included), newRequest succeeds, the fields of the
\* request are those decoded from M and its Body is B exactly.
C3_ParsesMetadataAndBody ==
    (ppc = "done" /\ FramedDocument) =>
        LET k == FirstDividerLine(doc) IN
        /\ ret.err = "nil"
        /\ ret.req = [JsonUnmarshal(MetaBefore(doc, k)).req
                        EXCEPT !.Body = BodyAfter(doc, k)]

\* C4: the divider is recognized and newRequest succeeds when the three
\* dashes are followed by LF, by CR LF, or by the end of the stream; with
\* nothing after the divider the Body is empty and there is no error.
C4_DividerEndingsAccepted ==
    (ppc = "done" /\ FramedDocument) =>
        LET k == FirstDividerLine(doc)
            rest == SubSeq(doc, k + 3, Len(doc))
        IN
        /\ (rest = <<>> \/ rest[1] = LF \/ SubSeq(rest, 1, 2) = <<CR, LF>>)
              => ret.err = "nil"
        /\ rest = <<>> => ret.req.Body = <<>>

\* C5: a stream with no divider line anywhere (the empty stream and a
\* stream ending in a line ending included) yields the no-front-matter
\* error and never a request. Stated in the half the claim implies
\* whatever the error is called: newRequest returns an error, no request.
C5_NoDividerNeverRequest ==
    (ppc = "done" /\ ~HasDividerLine(doc)) => ret.err # "nil"

\* C6: a document whose very first line is the divider yields an error
\* and no request, whatever follows.
C6_LeadingDividerIsError ==
    (ppc = "done" /\ DividerLineAt(doc, 1)) =>
        ret.err # "nil" /\ ret.req = ZeroRequest

\* C6 witness: the first line is the divider, a later divider was found
\* and the bytes before it, the leading dashes included, went to the decoder.
C6_Witness ==
    /\ ppc = "done"
    /\ DividerLineAt(doc, 1)
    /\ found
    /\ SubSeq(writerFrontMatter, 1, 3) = Dashes
    /\ ret.err = "json syntax"

\* C7: the stream is split at the first line that is exactly three dashes
\* and nowhere else: not at dashes inside a line, not at a line that
\* starts with three dashes and goes on ("----", "---x").
C7_SplitsOnlyAtDividerLine ==
    found =>
        /\ DividerLineAt(doc, Len(writerFrontMatter) + 1)
        /\ \A j \in 1..Len(writerFrontMatter) : ~DividerLineAt(doc, j)

\* C12: whenever newRequest returns an error, the request it returns is
\* the zero value: no decoded field and no body byte comes with an error.
C12_ErrorMeansZeroRequest ==
    (ppc = "done" /\ ret.err # "nil") => ret.req = ZeroRequest

\* The divider was found, body bytes were taken, the metadata did not
\* decode.
C12_Witness ==
    /\ ppc = "done"
    /\ found
    /\ writerBody # <<>>
    /\ ret.err \in {"json syntax", "json type"}

\* C14: the step that recognizes the divider consumes the three dashes and
\* at most one line ending after them (LF, CR LF or CR), so that a body
\* starting with a line-ending byte keeps that byte.
C14_OneLineEndingConsumed ==
    [][(~found /\ found') => pos' = pos + 4 + LineEndLen(doc, pos + 5)]_vars

\* C15: once the divider has been recognized, detection stays off: every
\* later byte read goes to the body unchanged and in order, and the
\* metadata segment gets nothing more.
C15_BodyVerbatimAfterDivider ==
    [][found =>
        /\ found'
        /\ writerFrontMatter' = writerFrontMatter
        /\ IF ppc = "loop" /\ pos < Len(doc)
             THEN /\ pos' = pos + 1
                  /\ writerBody' = Append(writerBody, doc[pos + 1])
             ELSE /\ pos' = pos
                  /\ writerBody' = writerBody]_vars

\* A body with a line of exactly three dashes in it came back whole.
C15_Witness ==
    /\ ppc = "done"
    /\ ret.err = "nil"
    /\ ret.req.Body = <<"u", LF, "-", "-", "-", LF, "u">>

\* C16: when the stream fails with an error that is not the normal end of
\* input, newRequest returns an error and no request. Stated in the half
\* that does not depend on what the error is called: never a success.
C16_ReadFailureNeverRequest ==
    (ppc = "done" /\ readErr = "read error") => ret.err # "nil"

\* ------------------------------------------------------------------------
\* Claims about run and send
\* ------------------------------------------------------------------------
\* How many of the results run has received come from task i.
ResultsOf(i) == Cardinality({j \in 1..Len(received) : received[j].task = i})

\* The result task i has built is out[i], from the moment it sends it.
Emitted(i) == pc[i] \in {"send", "done"}

\* C1: run receives exactly one Result per submitted request, none twice
\* and none left out, in every interleaving and on every exit path of
\* send: never more than one per request, one for each send task that
\* has returned, and one for each request when run returns.
C1_ExactlyOneResultEach ==
    /\ Len(received) <= Len(requests)
    /\ \A j \in 1..Len(received) :
          /\ received[j].task \in Tasks
          /\ received[j] = out[received[j].task]
          /\ received[j].Request = requests[received[j].task]
    /\ \A i \in Tasks :
          /\ ResultsOf(i) <= 1
          /\ pc[i] = "done" => ResultsOf(i) = 1
          /\ runPc = "returned" => ResultsOf(i) = 1
    /\ runPc = "returned" => Len(received) = Len(requests)

\* C1 witness: run has returned with the results of as many requests as
\* the bound allows, received out of submission order, from send tasks
\* that left by different exits.
C1_Witness ==
    /\ runPc = "returned"
    /\ Len(requests) = MaxRequests
    /\ Len(requests) >= 2
    /\ received[1].task = Len(requests)
    /\ received[1].Error.kind = "timeout"
    /\ \E j \in 1..Len(received) : received[j].Error.kind = "assertion"

\* C2: when the timer case of the select is taken while the call has not
\* returned, the Result of the request carries the timeout error with
\* the request's Timeout, and the task is sending it without waiting for
\* the call: run, once in its second loop, can take it at once.
C2_TimeoutNotBlockedOnCall ==
    \A i \in Tasks :
        timerFirst[i] =>
            /\ Emitted(i)
            /\ out[i] = Result(i, requests[i], <<>>, -1,
                  [kind |-> "timeout", ms |-> requests[i].Timeout,
                   pattern |-> <<>>])
            /\ (pc[i] = "send" /\ Alive /\ spawned = Len(requests))
                  => ENABLED Receive(i)

\* C2 witness: run has received a timeout Result of a request with a
\* Timeout of 50 ms whose call is still running.
C2_Witness ==
    \E i \in Tasks :
        /\ timerFirst[i]
        /\ callState[i] = "running"
        /\ pc[i] = "done"
        /\ requests[i].Timeout = 50
        /\ \E j \in 1..Len(received) :
              received[j].task = i /\ received[j].Error.kind = "timeout"

\* C8: the call send starts is built from the request's Method, URL and
\* Body and carries every header of the request's Headers, as its
\* Name()/Value() pair, duplicates included.
C8_CallCarriesHeaders ==
    \A i \in Tasks :
        callState[i] # "none" =>
            /\ call[i].Method = requests[i].Method
            /\ call[i].URL = requests[i].URL
            /\ call[i].Body = requests[i].Body
            /\ call[i].Header =
                  [j \in 1..Len(requests[i].Headers) |->
                      <<HeaderName(requests[i].Headers[j]),
                        HeaderValue(requests[i].Headers[j])>>]

\* The assertions of request i that do not match the body read.
NotMatching(i) ==
    {k \in 1..Len(requests[i].Assertions) :
        Find(requests[i].Assertions[k], str[i]) # "match"}
FirstNotMatching(i) ==
    CHOOSE k \in NotMatching(i) : \A j \in NotMatching(i) : k <= j

\* C9: with the body read and assertion k the first that does not match
\* it, the Result is the assertion failure naming the pattern of k, the
\* assertions up to k were evaluated in declared order and none after k
\* is evaluated. At any time the evaluated assertions are a prefix of the
\* declared ones, all but the last of them matching.
C9_FirstFailingAssertion ==
    \A i \in Tasks :
        /\ evaluated[i] = [j \in 1..Len(evaluated[i]) |-> j]
        /\ \A j \in 1..(Len(evaluated[i]) - 1) :
              Find(requests[i].Assertions[j], str[i]) = "match"
        /\ (Emitted(i) /\ bodyRead[i] /\ NotMatching(i) # {}) =>
              LET k == FirstNotMatching(i) IN
              /\ out[i].Error =
                    [kind |-> "assertion", ms |-> 0,
                     pattern |-> requests[i].Assertions[k]]
              /\ evaluated[i] = [j \in 1..k |-> j]

\* C9 witness: the second of three assertions failed, the first was
\* evaluated before it and the third, which does not compile, never.
C9_Witness ==
    \E i \in Tasks :
        /\ pc[i] = "done"
        /\ Len(requests[i].Assertions) = 3
        /\ ~Compiles(requests[i].Assertions[3])
        /\ evaluated[i] = <<1, 2>>
        /\ out[i].Error.kind = "assertion"
        /\ out[i].Error.pattern = requests[i].Assertions[2]

\* The select of task i took the outcome the call had put in timeoutChan.
TookResponse(i) == callState[i] = "returned" /\ timeoutChan[i] = <<>>

\* The probe of task i succeeded: the call's outcome was taken by the
\* select, without error, the body was read and every assertion matched.
Succeeded(i) ==
    /\ TookResponse(i)
    /\ theResponse[i].Err = "nil"
    /\ bodyRead[i]
    /\ NotMatching(i) = {}

\* C10: in every Result, Error is nil exactly when the call completed
\* before the timer, the body was read and every assertion matched (or
\* there were none); then Response is the response body, otherwise Error
\* is not nil and Response is empty.
C10_ErrorNilIffSuccess ==
    \A i \in Tasks :
        Emitted(i) =>
            /\ out[i].Error = NoError <=> Succeeded(i)
            /\ Succeeded(i) => out[i].Response = theResponse[i].Body
            /\ ~Succeeded(i) =>
                  out[i].Error.kind # "nil" /\ out[i].Response = <<>>

\* C10 witness: one Result of a success with a body, and one of a failed
\* assertion on a body that is not empty, both received by run.
C10_Witness ==
    /\ \E j \in 1..Len(received) :
          received[j].Error = NoError /\ received[j].Response # <<>>
    /\ \E j \in 1..Len(received) :
          /\ received[j].Error.kind = "assertion"
          /\ str[received[j].task] # <<>>
          /\ received[j].Response = <<>>

\* Task i has handed a pattern that does not compile to Find.
MetUncompilable(i) ==
    \E n \in 1..Len(evaluated[i]) :
        ~Compiles(requests[i].Assertions[evaluated[i][n]])

\* C11: a failure in one request never aborts the others: the process
\* keeps running, and a task whose assertion pattern does not compile
\* gets a result whose error is of the compile kind, which is not the
\* assertion-mismatch kind.
C11_CompileFailureIsAResult ==
    /\ ~crashed
    /\ \A i \in Tasks :
        MetUncompilable(i) =>
            /\ Emitted(i)
            /\ out[i].Error.kind = "compile"

\* C17: ResponseTime is -1 in the Result of a probe that failed before a
\* response was obtained (build error, transport error, timeout); in the
\* Result of a success or of a failed assertion the response was taken
\* and ResponseTime is the duration measured then, which is not negative.
C17_ResponseTimeSentinel ==
    \A i \in Tasks :
        Emitted(i) =>
            /\ out[i].Error.kind \in {"build", "transport", "timeout"}
                  => out[i].ResponseTime = -1
            /\ out[i].Error.kind \in {"nil", "assertion"}
                  => /\ TookResponse(i)
                     /\ out[i].ResponseTime = responseTime[i]
                     /\ out[i].ResponseTime \in Durations
                     /\ out[i].ResponseTime >= 0

\* C17 witness: run has received a failed assertion with its measured
\* duration and a Result with the sentinel.
C17_Witness ==
    /\ \E j \in 1..Len(received) :
          /\ received[j].Error.kind = "assertion"
          /\ received[j].ResponseTime >= 0
    /\ \E j \in 1..Len(received) :
          /\ received[j].Error.kind \in {"build", "transport", "timeout"}
          /\ received[j].ResponseTime = -1

\* Task i ended in the timer case of its select.
TimedOut(i) == Emitted(i) /\ out[i].Error.kind = "timeout"

\* C18: after a timeout the call is not cancelled: while it runs it can
\* return, whatever the send task and run are doing, putting its outcome
\* into timeoutChan, which never holds more than that one outcome; once
\* it has returned the outcome stays there unread, and the request has
\* its timeout Result and no second one.
C18_LateOutcomeNeverRead ==
    \A i \in Tasks :
        /\ Len(timeoutChan[i]) <= 1
        /\ TimedOut(i) =>
              /\ callState[i] \in {"running", "returned"}
              /\ (callState[i] = "running" /\ Alive) => ENABLED CallReturn(i)
              /\ callState[i] = "running" => timeoutChan[i] = <<>>
              /\ callState[i] = "returned" => Len(timeoutChan[i]) = 1
              /\ ResultsOf(i) <= 1
              /\ \A j \in 1..Len(received) :
                    received[j].task = i
                        => received[j].Error.kind = "timeout"

\* C18 witness: the timer fired first, run received the timeout Result,
\* the task ended, and then the call returned and left its outcome.
C18_Witness ==
    \E i \in Tasks :
        /\ timerFirst[i]
        /\ pc[i] = "done"
        /\ ResultsOf(i) = 1
        /\ callState[i] = "returned"
        /\ Len(timeoutChan[i]) = 1

\* C19: under fair scheduling run ends up with as many Results as there
\* are requests and returns, whether or not the HTTP calls return.
C19_RunReturnsWithAllResults ==
    <>(runPc = "returned" /\ Len(received) = Len(requests))

\* C20: once the call's outcome has been taken from timeoutChan the send
\* task is past its select, and the Result it builds is a transport
\* error, a body-read error, a failed assertion or a success, never a
\* timeout.
C20_NoTimeoutAfterResponseTaken ==
    \A i \in Tasks :
        TookResponse(i) =>
            /\ pc[i] \in {"read", "assert", "send", "done"}
            /\ ~ENABLED SelectTimeout(i)
            /\ Emitted(i) =>
                  out[i].Error.kind \in {"transport", "read", "assertion", "nil"}

\* C20 witness: results built after the outcome was taken, one after a
\* failed body read and one with every assertion evaluated.
C20_Witness ==
    /\ \E i \in Tasks :
          TookResponse(i) /\ pc[i] = "done" /\ out[i].Error.kind = "read"
    /\ \E i \in Tasks :
          /\ TookResponse(i)
          /\ pc[i] = "done"
          /\ Len(evaluated[i]) >= 2
          /\ out[i].Error.kind \in {"assertion", "nil"}

\* ------------------------------------------------------------------------
\* Claims about header
\* ------------------------------------------------------------------------
\* The text of h after its first colon, the spaces around it trimmed.
AfterColon(h) == TrimSpaces(SubSeq(h, IndexColon(h) + 2, Len(h)))

\* C13: Name() is the text before the first colon, empty when there is no
\* colon or the colon is at position 0; Value() is the text after the
\* first colon with the spaces around it trimmed, empty only when there is
\* no colon or nothing but spaces follows it: a header whose first colon
\* is at position 0 still returns the text after that colon.
C13_HeaderNameValue ==
    hpc = "done" =>
        /\ hName = IF IndexColon(header) >= 1
                     THEN SubSeq(header, 1, IndexColon(header)) ELSE <<>>
        /\ hValue = IF IndexColon(header) >= 0
                      THEN AfterColon(header) ELSE <<>>

====
